---- MODULE Spec2Model ----
(***************************************************************************)
(* Model of itunes-xml-playlist-extract (src/main.go): the hand-written    *)
(* dict decoder Dict.UnmarshalXML driven by encoding/xml, and main's       *)
(* extraction of tracks and playlists from the decoded value tree.         *)
(***************************************************************************)
EXTENDS Integers, Sequences, FiniteSets, TLC

VARIABLES
  doc,         \* history: the element tree the token stream was written from
  input,       \* the token stream xml.Decoder reads (itunesBytes, tokenised)
  pos,         \* index in input of the token the next d.Token() returns
  stack,       \* the active decode calls, outermost first
  iD,          \* main's i.D, the Dict the plist's dict child decodes into
  pc,          \* main's position
  tracks,      \* main's tracks map
  playlists,   \* main's playlists slice
  Format,      \* Args.Format
  fileCreated, \* os.Create(Args.OutPath) has run
  written      \* what has been written to the output file, in order

vars == <<doc, input, pos, stack, iD, pc, tracks, playlists, Format,
          fileCreated, written>>

(***************************************************************************)
(* Bounds of the model.                                                    *)
(***************************************************************************)
MaxItems == 3       \* children of the generated root dict
MaxPairs == 2       \* key/value pairs of the generated well-formed root dict
MaxTail == 2        \* playlists after the skipped ones in generated libraries
MaxTrackID == 12    \* integers the integer texts of the documents can denote

(***************************************************************************)
(* Values: what a map[string]interface{} of the decoder holds.             *)
(***************************************************************************)
EmptyMap == [k \in {} |-> 0]

Put(m, k, v) == [y \in (DOMAIN m) \cup {k} |-> IF y = k THEN v ELSE m[y]]

StrV(s) == [t |-> "str", s |-> s]
IntV(n) == [t |-> "int", i |-> n]
DictV(m) == [t |-> "dict", nil |-> FALSE, KVs |-> m]
ArrayV(ds) == [t |-> "array", Dicts |-> ds]

\* The zero Dict (var v Dict): its KVs map is nil.
NilDict == [t |-> "dict", nil |-> TRUE, KVs |-> EmptyMap]

\* The nil interface{} a map read of an absent key gives.
NilValue == [t |-> "nil"]

\* d.KVs[k]: reading a nil map, or an absent key, gives the nil interface.
Lookup(d, k) == IF k \in DOMAIN d.KVs THEN d.KVs[k] ELSE NilValue

(***************************************************************************)
(* Documents.  An element is a name and its children; character data is a  *)
(* child named "#text".  Tokens(el) is the token stream of its XML text.   *)
(***************************************************************************)
Txt(s) == [e |-> "#text", text |-> s, body |-> <<>>]
El(name, body) == [e |-> name, text |-> "", body |-> body]
K(s) == El("key", <<Txt(s)>>)
S(s) == El("string", <<Txt(s)>>)
I(s) == El("integer", <<Txt(s)>>)
D(body) == El("dict", body)
A(body) == El("array", body)
Plist(body) == El("plist", body)

StartTok(name) == [k |-> "start", s |-> name]
EndTok(name) == [k |-> "end", s |-> name]
CharTok(text) == [k |-> "chars", s |-> text]

RECURSIVE Tokens(_)
RECURSIVE TokensOfAll(_)
Tokens(el) ==
  IF el.e = "#text" THEN <<CharTok(el.text)>>
  ELSE <<StartTok(el.e)>> \o TokensOfAll(el.body) \o <<EndTok(el.e)>>

TokensOfAll(els) ==
  IF els = <<>> THEN <<>> ELSE Tokens(Head(els)) \o TokensOfAll(Tail(els))

(***************************************************************************)
(* encoding/xml and strconv, as far as the program uses them.              *)
(***************************************************************************)
Digit == <<"0", "1", "2", "3", "4", "5", "6", "7", "8", "9">>

\* strconv.Itoa: the decimal text of n.
RECURSIVE Itoa(_)
Itoa(n) ==
  IF n < 0 THEN "-" \o Itoa(-n)
  ELSE IF n < 10 THEN Digit[n + 1]
  ELSE Itoa(n \div 10) \o Digit[(n % 10) + 1]

\* The texts strconv.ParseInt(strings.TrimSpace(text), 10, 0) reads as n:
\* the decimal text, with a sign, with leading zeros, with spaces around.
IntTexts(n) ==
  {Itoa(n), "+" \o Itoa(n), "0" \o Itoa(n), " " \o Itoa(n) \o " "}

\* An int target of DecodeElement: empty character data leaves 0 with no
\* error, anything else goes through ParseInt.
ParseInt(text) ==
  IF text = "" THEN [ok |-> TRUE, n |-> 0]
  ELSE IF \E n \in 0..MaxTrackID : text \in IntTexts(n)
       THEN [ok |-> TRUE, n |-> CHOOSE n \in 0..MaxTrackID : text \in IntTexts(n)]
       ELSE [ok |-> FALSE, n |-> 0]

\* Reading an element whose start tag was just read, up to its end tag:
\* the character data directly inside it is collected, elements inside it
\* are skipped.  This is DecodeElement into a string or int, and d.Skip().
\* ok is FALSE when the stream ends before the end tag.
RECURSIVE Scan(_, _, _, _)
Scan(in, i, depth, acc) ==
  IF i > Len(in) THEN [ok |-> FALSE, text |-> acc, next |-> i]
  ELSE LET tk == in[i] IN
    CASE tk.k = "chars" ->
           Scan(in, i + 1, depth, IF depth = 0 THEN acc \o tk.s ELSE acc)
      [] tk.k = "start" -> Scan(in, i + 1, depth + 1, acc)
      [] tk.k = "end" ->
           IF depth = 0 THEN [ok |-> TRUE, text |-> acc, next |-> i + 1]
           ELSE Scan(in, i + 1, depth - 1, acc)

(***************************************************************************)
(* The decode calls.  A frame is one active call: the struct decode of     *)
(* ITunesLib ("plist") or of Array ("array"), or Dict.UnmarshalXML         *)
(* ("dict").  start is start.Name.Local, at the place of the start tag in  *)
(* the stream; kvs and key are UnmarshalXML's locals, di the Dict it       *)
(* decodes into, Dicts the slice the Array decode has filled so far.       *)
(***************************************************************************)
Frame(kind, start, at, di) ==
  [kind |-> kind, start |-> start, at |-> at, kvs |-> EmptyMap, key |-> "",
   di |-> di, Dicts |-> <<>>]

Top == stack[Len(stack)]
Tok == input[pos]
Pop(st) == SubSeq(st, 1, Len(st) - 1)
SetTop(st, f) == [st EXCEPT ![Len(st)] = f]

Decoding(kind) ==
  /\ pc = "decode"
  /\ stack # <<>>
  /\ Top.kind = kind
  /\ pos <= Len(input)

\* kvs[key] = v
Store(f, v) == [f EXCEPT !.kvs = Put(f.kvs, f.key, v)]

\* line 54: di.KVs = kvs
Finish(f) == [f EXCEPT !.di = DictV(f.kvs)]

\* Mutant of IsOwnEnd: the name of the end tag is not compared.
IsOwnEnd_AnyEnd(tk, f) == TRUE

\* line 52: ty.Name.Local == start.Name.Local
IsOwnEnd(tk, f) == tk.s = f.start

\* lines 47-49, 61-63, 69-71, 77-79: the call returns err as it stands; the
\* Dict it decodes into is left as it was.
OnError(f) == f

\* Mutant of ErrReturn: a caller drops the error of the element it was
\* decoding and reads on.
ErrReturn_Dropped(st) ==
  [stack |-> Pop(st), pc |-> IF Len(st) = 1 THEN "fatal244" ELSE "decode"]

\* A call returns err: its caller returns it in turn, and when the outermost
\* call (xml.Unmarshal) has returned it, main calls log.Fatalf.
ErrReturn(st) ==
  [stack |-> Pop(st), pc |-> IF Len(st) = 1 THEN "fatal244" ELSE "unwind"]

extractVars == <<tracks, playlists, fileCreated, written>>
fixedVars == <<doc, Format>>

\* The decoder moves to token p with the stack st; main is untouched.
Step(st, p) ==
  /\ stack' = st
  /\ pos' = p
  /\ UNCHANGED <<input, iD, pc, extractVars, fixedVars>>

\* The active call returns err at token p.
Fail(p) ==
  /\ pc' = "unwind"
  /\ pos' = p
  /\ stack' = SetTop(stack, OnError(Top))
  /\ UNCHANGED <<input, iD, extractVars, fixedVars>>

(***************************************************************************)
(* main, lines 242-245: xml.Unmarshal(itunesBytes, &i).  The root element  *)
(* must be the plist that ITunesLib.XMLName names.                         *)
(***************************************************************************)
UnmarshalRoot ==
  /\ pc = "main"
  /\ IF pos <= Len(input) /\ Tok = StartTok("plist")
     THEN /\ stack' = <<Frame("plist", Tok.s, pos, NilDict)>>
          /\ pos' = pos + 1
          /\ pc' = "decode"
     ELSE /\ pc' = "fatal244"
          /\ UNCHANGED <<stack, pos>>
  /\ UNCHANGED <<input, iD, extractVars, fixedVars>>

\* d.Token() returns an error: the stream ends here.
TokenError ==
  /\ pc = "decode"
  /\ stack # <<>>
  /\ input' = SubSeq(input, 1, pos - 1)
  /\ pc' = "unwind"
  /\ stack' = SetTop(stack, OnError(Top))
  /\ UNCHANGED <<pos, iD, extractVars, fixedVars>>

\* The call on top of the stack returns the error to its caller.
ReturnErr ==
  /\ pc = "unwind"
  /\ stack' = ErrReturn(stack).stack
  /\ pc' = ErrReturn(stack).pc
  /\ UNCHANGED <<input, pos, iD, extractVars, fixedVars>>

(***************************************************************************)
(* The struct decode of ITunesLib: a dict child is decoded into i.D by     *)
(* Dict.UnmarshalXML, any other child is skipped, the end tag ends it.     *)
(***************************************************************************)
PlistDict ==
  /\ Decoding("plist")
  /\ Tok = StartTok("dict")
  /\ Step(Append(stack, Frame("dict", Tok.s, pos, iD)), pos + 1)

PlistSkip ==
  /\ Decoding("plist")
  /\ Tok.k = "start"
  /\ Tok.s # "dict"
  /\ LET r == Scan(input, pos + 1, 0, "") IN
       IF r.ok THEN Step(stack, r.next) ELSE Fail(r.next)

PlistChars ==
  /\ Decoding("plist")
  /\ Tok.k = "chars"
  /\ Step(stack, pos + 1)

PlistEnd ==
  /\ Decoding("plist")
  /\ Tok.k = "end"
  /\ stack' = <<>>
  /\ pos' = pos + 1
  /\ pc' = "decoded"
  /\ UNCHANGED <<input, iD, extractVars, fixedVars>>

(***************************************************************************)
(* Dict.UnmarshalXML, lines 40-99: one action per kind of token the loop   *)
(* reads.                                                                  *)
(***************************************************************************)
\* lines 51-56: an end tag; the dict's own ends the call, which hands the
\* Dict to its caller (line 88, the Array's slice, or i.D).
DictEnd ==
  /\ Decoding("dict")
  /\ Tok.k = "end"
  /\ IF IsOwnEnd(Tok, Top)
     THEN LET v == Finish(Top).di
              rest == Pop(stack)
              caller == rest[Len(rest)]
          IN /\ stack' =
                  CASE caller.kind = "dict" -> SetTop(rest, Store(caller, v))
                    [] caller.kind = "array" ->
                         SetTop(rest, [caller EXCEPT !.Dicts = Append(@, v)])
                    [] caller.kind = "plist" -> rest
             /\ iD' = IF caller.kind = "plist" THEN v ELSE iD
     ELSE /\ stack' = stack
          /\ iD' = iD
  /\ pos' = pos + 1
  /\ UNCHANGED <<input, pc, extractVars, fixedVars>>

\* lines 58-65
DictKey ==
  /\ Decoding("dict")
  /\ Tok = StartTok("key")
  /\ LET r == Scan(input, pos + 1, 0, "") IN
       IF r.ok THEN Step(SetTop(stack, [Top EXCEPT !.key = r.text]), r.next)
       ELSE Fail(r.next)

\* lines 66-73
DictInteger ==
  /\ Decoding("dict")
  /\ Tok = StartTok("integer")
  /\ LET r == Scan(input, pos + 1, 0, "")
         n == ParseInt(r.text)
     IN IF r.ok /\ n.ok
        THEN Step(SetTop(stack, Store(Top, IntV(n.n))), r.next)
        ELSE Fail(r.next)

\* lines 74-81
DictString ==
  /\ Decoding("dict")
  /\ Tok = StartTok("string")
  /\ LET r == Scan(input, pos + 1, 0, "") IN
       IF r.ok THEN Step(SetTop(stack, Store(Top, StrV(r.text))), r.next)
       ELSE Fail(r.next)

\* lines 82-85: DecodeElement(&v, &ty) with a fresh Dict calls UnmarshalXML
DictDict ==
  /\ Decoding("dict")
  /\ Tok = StartTok("dict")
  /\ Step(Append(stack, Frame("dict", Tok.s, pos, NilDict)), pos + 1)

\* lines 90-92: DecodeElement(&v, &ty) with a fresh Array
DictArray ==
  /\ Decoding("dict")
  /\ Tok = StartTok("array")
  /\ Step(Append(stack, Frame("array", Tok.s, pos, NilDict)), pos + 1)

\* lines 57-97: a start tag of any other name matches no branch; only the
\* tag itself is consumed and the loop goes on with what is inside it.
DictOther ==
  /\ Decoding("dict")
  /\ Tok.k = "start"
  /\ Tok.s \notin {"key", "integer", "string", "dict", "array"}
  /\ Step(stack, pos + 1)

\* line 50: character data matches no case of the type switch
DictChars ==
  /\ Decoding("dict")
  /\ Tok.k = "chars"
  /\ Step(stack, pos + 1)

(***************************************************************************)
(* The struct decode of Array, lines 35-38: each dict child is appended    *)
(* to Dicts, any other child is skipped; at the end tag the Array goes to  *)
(* the dict that asked for it (line 95).                                   *)
(***************************************************************************)
ArrayDict ==
  /\ Decoding("array")
  /\ Tok = StartTok("dict")
  /\ Step(Append(stack, Frame("dict", Tok.s, pos, NilDict)), pos + 1)

ArraySkip ==
  /\ Decoding("array")
  /\ Tok.k = "start"
  /\ Tok.s # "dict"
  /\ LET r == Scan(input, pos + 1, 0, "") IN
       IF r.ok THEN Step(stack, r.next) ELSE Fail(r.next)

ArrayChars ==
  /\ Decoding("array")
  /\ Tok.k = "chars"
  /\ Step(stack, pos + 1)

ArrayEnd ==
  /\ Decoding("array")
  /\ Tok.k = "end"
  /\ LET rest == Pop(stack) IN
       Step(SetTop(rest, Store(rest[Len(rest)], ArrayV(Top.Dicts))), pos + 1)

Decode ==
  \/ UnmarshalRoot \/ TokenError \/ ReturnErr
  \/ PlistDict \/ PlistSkip \/ PlistChars \/ PlistEnd
  \/ DictEnd \/ DictKey \/ DictInteger \/ DictString \/ DictDict
  \/ DictArray \/ DictOther \/ DictChars
  \/ ArrayDict \/ ArraySkip \/ ArrayChars \/ ArrayEnd

(***************************************************************************)
(* main, lines 247-297: the tracks, the playlists, the output.             *)
(***************************************************************************)
SkipCount == 5

ZeroTrack == [Artist |-> "", Album |-> "", Name |-> ""]

\* Mutant of StringOrDefault: an empty string counts as missing.
StringOrDefault_EmptyIsMissing(val, alt) ==
  IF val.t = "str" /\ val.s # "" THEN val.s ELSE alt

\* lines 222-228
StringOrDefault(val, alt) == IF val.t = "str" THEN val.s ELSE alt

\* lines 251-255
TrackOf(td) ==
  [Artist |-> StringOrDefault(Lookup(td, "Artist"), "Unknown Artist"),
   Album |-> StringOrDefault(Lookup(td, "Album"), "Unknown Album"),
   Name |-> StringOrDefault(Lookup(td, "Name"), "Unknown Name")]

\* line 277: tracks[strconv.Itoa(trackID)], the zero Track for an absent key
ResolveTrack(tr, id) ==
  IF Itoa(id) \in DOMAIN tr THEN tr[Itoa(id)] ELSE ZeroTrack

\* Mutant of ResolveItems: each Track is put in front of the earlier ones.
RECURSIVE ResolveItems_Prepend(_, _)
ResolveItems_Prepend(items, tr) ==
  IF items = <<>> THEN [ok |-> TRUE, ts |-> <<>>]
  ELSE LET id == Lookup(Head(items), "Track ID") IN
    IF id.t # "int" THEN [ok |-> FALSE, ts |-> <<>>]
    ELSE LET r == ResolveItems_Prepend(Tail(items), tr) IN
      [ok |-> r.ok, ts |-> r.ts \o <<ResolveTrack(tr, id.i)>>]

\* lines 275-279: ok is FALSE when a Track ID is not an int (line 276 panics)
RECURSIVE ResolveItems(_, _)
ResolveItems(items, tr) ==
  IF items = <<>> THEN [ok |-> TRUE, ts |-> <<>>]
  ELSE LET id == Lookup(Head(items), "Track ID") IN
    IF id.t # "int" THEN [ok |-> FALSE, ts |-> <<>>]
    ELSE LET r == ResolveItems(Tail(items), tr) IN
      [ok |-> r.ok, ts |-> <<ResolveTrack(tr, id.i)>> \o r.ts]

\* lines 270-274: the playlist is passed over when Playlist Items is no Array
NoItems(pTracks) == pTracks.t # "array"

\* Mutant of CanSkip: a slice shorter than 5 gives no playlists, no panic.
CanSkip_Always(ds) == TRUE

\* Mutant of SkipFirst: the slice starts one entry early.
SkipFirst_OneEarly(ds) == SubSeq(ds, SkipCount, Len(ds))

\* line 267: rawPlaylists.Dicts[5:], which panics on a shorter slice
CanSkip(ds) == Len(ds) >= SkipCount
SkipFirst(ds) == SubSeq(ds, SkipCount + 1, Len(ds))

\* Mutant of ConvertPlaylists: a playlist without items ends the loop
\* (break for continue).
RECURSIVE ConvertPlaylists_Break(_, _)
ConvertPlaylists_Break(ds, tr) ==
  IF ds = <<>> THEN [ok |-> TRUE, ps |-> <<>>]
  ELSE LET d == Head(ds)
           name == StringOrDefault(Lookup(d, "Name"), "Unknown Playlist")
           pTracks == Lookup(d, "Playlist Items")
       IN IF NoItems(pTracks) THEN [ok |-> TRUE, ps |-> <<>>]
          ELSE LET r == ResolveItems(pTracks.Dicts, tr) IN
            IF ~r.ok THEN [ok |-> FALSE, ps |-> <<>>]
            ELSE LET rest == ConvertPlaylists_Break(Tail(ds), tr) IN
              [ok |-> rest.ok,
               ps |-> <<[Name |-> name, Tracks |-> r.ts]>> \o rest.ps]

\* lines 267-281: ok is FALSE when line 276 panics
RECURSIVE ConvertPlaylists(_, _)
ConvertPlaylists(ds, tr) ==
  IF ds = <<>> THEN [ok |-> TRUE, ps |-> <<>>]
  ELSE LET d == Head(ds)
           name == StringOrDefault(Lookup(d, "Name"), "Unknown Playlist")
           pTracks == Lookup(d, "Playlist Items")
       IN IF NoItems(pTracks) THEN ConvertPlaylists(Tail(ds), tr)
          ELSE LET r == ResolveItems(pTracks.Dicts, tr) IN
            IF ~r.ok THEN [ok |-> FALSE, ps |-> <<>>]
            ELSE LET rest == ConvertPlaylists(Tail(ds), tr) IN
              [ok |-> rest.ok,
               ps |-> <<[Name |-> name, Tracks |-> r.ts]>> \o rest.ps]

\* lines 248-257; the type assertions of lines 248 and 252 panic
ExtractTracks ==
  /\ pc = "decoded"
  /\ LET rawTracks == Lookup(iD, "Tracks") IN
       IF rawTracks.t # "dict"
       THEN pc' = "panic248" /\ tracks' = tracks
       ELSE IF \E id \in DOMAIN rawTracks.KVs : rawTracks.KVs[id].t # "dict"
       THEN pc' = "panic252" /\ tracks' = tracks
       ELSE /\ tracks' = [id \in DOMAIN rawTracks.KVs |-> TrackOf(rawTracks.KVs[id])]
            /\ pc' = "tracks"
  /\ UNCHANGED <<input, pos, stack, iD, playlists, fileCreated, written, fixedVars>>

\* lines 260-281
ExtractPlaylists ==
  /\ pc = "tracks"
  /\ LET rawPlaylists == Lookup(iD, "Playlists") IN
       IF rawPlaylists.t # "array"
       THEN pc' = "panic260" /\ playlists' = playlists
       ELSE IF ~CanSkip(rawPlaylists.Dicts)
       THEN pc' = "panic267" /\ playlists' = playlists
       ELSE LET r == ConvertPlaylists(SkipFirst(rawPlaylists.Dicts), tracks) IN
         IF r.ok THEN pc' = "extracted" /\ playlists' = r.ps
         ELSE pc' = "panic276" /\ playlists' = playlists
  /\ UNCHANGED <<input, pos, stack, iD, tracks, fileCreated, written, fixedVars>>

(***************************************************************************)
(* The renderers, lines 119-220.  Each element of the result is the bytes  *)
(* of one w.Write call.                                                    *)
(***************************************************************************)
RECURSIVE Repeat(_, _)
Repeat(c, n) == IF n <= 0 THEN "" ELSE c \o Repeat(c, n - 1)

Max(a, b) == IF a >= b THEN a ELSE b

\* lines 128-134
RECURSIVE CSVTracks(_, _)
CSVTracks(name, ts) ==
  IF ts = <<>> THEN <<>>
  ELSE LET t == Head(ts) IN
    <<name \o "," \o t.Artist \o "," \o t.Album \o "," \o t.Name \o "\n">>
      \o CSVTracks(name, Tail(ts))

RECURSIVE CSVRows(_)
CSVRows(ps) ==
  IF ps = <<>> THEN <<>>
  ELSE CSVTracks(Head(ps).Name, Head(ps).Tracks) \o CSVRows(Tail(ps))

\* lines 122-136
WriteCSV(ps) == <<"Playlist Name, Artist, Album, Track\n">> \o CSVRows(ps)

\* lines 145-169: the column widths
RECURSIVE TrackWidths(_, _)
TrackWidths(ts, w) ==
  IF ts = <<>> THEN w
  ELSE LET t == Head(ts) IN
    TrackWidths(Tail(ts), <<w[1], Max(w[2], Len(t.Artist)),
                            Max(w[3], Len(t.Album)), Max(w[4], Len(t.Name))>>)

RECURSIVE Widths(_, _)
Widths(ps, w) ==
  IF ps = <<>> THEN w
  ELSE LET p == Head(ps) IN
    Widths(Tail(ps),
           TrackWidths(p.Tracks, <<Max(w[1], Len(p.Name)), w[2], w[3], w[4]>>))

ColWidths(ps) ==
  LET w == Widths(ps, <<13, 6, 5, 5>>) IN
    <<w[1] + 2, w[2] + 2, w[3] + 2, w[4] + 2>>

\* lines 174-180
DividerRow(cw) ==
  "+" \o Repeat("-", cw[1]) \o "+" \o Repeat("-", cw[2]) \o "+"
      \o Repeat("-", cw[3]) \o "+" \o Repeat("-", cw[4]) \o "+\n"

\* lines 183-191 and 201-209: a cell is right-padded to its column's width
Cell(item, w) ==
  LET c == " " \o item \o " " IN "|" \o c \o Repeat(" ", w - Len(c))

TableRow(items, cw) ==
  Cell(items[1], cw[1]) \o Cell(items[2], cw[2]) \o Cell(items[3], cw[3])
    \o Cell(items[4], cw[4]) \o "|\n"

RECURSIVE TableTracks(_, _, _)
TableTracks(name, ts, cw) ==
  IF ts = <<>> THEN ""
  ELSE LET t == Head(ts) IN
    TableRow(<<name, t.Artist, t.Album, t.Name>>, cw)
      \o TableTracks(name, Tail(ts), cw)

RECURSIVE TableSections(_, _)
TableSections(ps, cw) ==
  IF ps = <<>> THEN <<>>
  ELSE <<TableTracks(Head(ps).Name, Head(ps).Tracks, cw) \o DividerRow(cw)>>
         \o TableSections(Tail(ps), cw)

\* lines 142-220
WriteTable(ps) ==
  LET cw == ColWidths(ps) IN
    <<DividerRow(cw)
        \o TableRow(<<"Playlist Name", "Artist", "Album", "Track">>, cw)
        \o DividerRow(cw)>>
      \o TableSections(ps, cw)

\* lines 285-297.  The error of os.Create is dropped, and then the first
\* write fails; a write that fails leaves the earlier ones in the file and
\* main calls log.Fatalf.
Output ==
  /\ pc = "extracted"
  /\ LET all == IF Format = "csv" THEN WriteCSV(playlists)
                ELSE WriteTable(playlists)
     IN \E n \in 0..Len(all), created \in BOOLEAN :
          /\ ~created => n = 0
          /\ fileCreated' = created
          /\ written' = SubSeq(all, 1, n)
          /\ pc' = IF n = Len(all) THEN "done"
                   ELSE IF Format = "csv" THEN "fatal290" ELSE "fatal294"
  /\ UNCHANGED <<input, pos, stack, iD, tracks, playlists, fixedVars>>

Extract == ExtractTracks \/ ExtractPlaylists \/ Output

(***************************************************************************)
(* The documents the model decodes.                                        *)
(***************************************************************************)
\* What a generated root dict is made of: keys, values of each kind, an
\* array with a child that is no dict, and elements of other names, empty
\* or with keys, values and dicts inside them.
ItemSet ==
  {K("a"), K("b"), S("x"),
   D(<<K("b"), S("y")>>),
   A(<<D(<<K("a"), I("02")>>), S("x")>>),
   El("data", <<K("b"), S("y")>>),
   El("real", <<D(<<K("a"), S("x")>>)>>)}

GenBodies == UNION {[1..n -> ItemSet] : n \in 0..MaxItems}

\* Well-formed dicts: each key directly followed by its value element, or
\* by an element of another name (which stores nothing).
PairKeys == {"a", "b"}
PairValues ==
  {S("x"), I("1"), D(<<K("b"), S("y")>>), A(<<D(<<K("a"), I("02")>>)>>),
   El("true", <<>>)}

PairBody(ps) ==
  [i \in 1..(2 * Len(ps)) |->
     IF i % 2 = 1 THEN K(ps[(i + 1) \div 2][1]) ELSE ps[i \div 2][2]]

PairBodies ==
  {PairBody(ps) : ps \in UNION {[1..n -> PairKeys \X PairValues] : n \in 0..MaxPairs}}

\* The round trip of the specification: one string, one integer, one nested
\* dict and one array of dicts.
RoundTripDoc ==
  Plist(<<D(<<K("s"), S("text"), K("i"), I("12"),
              K("d"), D(<<K("in"), S("ner")>>),
              K("arr"), A(<<D(<<K("n"), I("1")>>), D(<<>>)>>)>>)>>)

\* A library as the README draws it, with n playlists before the user's.
RECURSIVE EmptyDicts(_)
EmptyDicts(n) == IF n = 0 THEN <<>> ELSE <<D(<<>>)>> \o EmptyDicts(n - 1)

LibraryDoc(n) ==
  Plist(<<Txt(" "),
    D(<<Txt(" "),
        K("Major Version"), I("1"), K("Show Content Ratings"), El("true", <<>>),
        K("Tracks"), D(<<K("1"), D(<<K("Name"), S("Sandstorm"),
                                     K("Artist"), S("Darude"),
                                     K("Album"), S("Before The Storm")>>)>>),
        K("Playlists"),
        A(EmptyDicts(n) \o
          <<Txt(" "),
            D(<<K("Name"), S("My Playlist"),
                K("Playlist Items"), A(<<D(<<K("Track ID"), I("1")>>)>>)>>)>>)>>),
    Txt(" ")>>)

\* An integer that does not parse, two levels down.
BadIntDoc ==
  Plist(<<D(<<K("a"), S("x"), K("arr"), A(<<D(<<K("n"), I("zz")>>)>>)>>)>>)

\* A plist with two dict children, one with none, and a root of another name.
TwoRootDoc == Plist(<<D(<<K("a"), S("x")>>), D(<<K("b"), D(<<K("a"), S("y")>>)>>)>>)
NoDictDoc == Plist(<<El("array", <<D(<<>>)>>), Txt(" ")>>)
WrongRootDoc == D(<<K("a"), S("x")>>)

HandDocs ==
  {RoundTripDoc, BadIntDoc, TwoRootDoc, NoDictDoc, WrongRootDoc}
    \cup {LibraryDoc(n) : n \in (SkipCount - 2)..SkipCount}

Docs == {Plist(<<D(b)>>) : b \in GenBodies \cup PairBodies} \cup HandDocs

Formats == {"csv", "table"}

Init ==
  /\ doc \in Docs
  /\ input = Tokens(doc)
  /\ pos = 1
  /\ stack = <<>>
  /\ iD = NilDict
  /\ pc = "main"
  /\ tracks = EmptyMap
  /\ playlists = <<>>
  /\ Format \in Formats
  /\ fileCreated = FALSE
  /\ written = <<>>

Next == Decode \/ Extract

Spec == Init /\ [][Next]_vars

(***************************************************************************)
(* Decoded libraries, for the extraction taken alone: the value i.D holds  *)
(* when xml.Unmarshal has returned.                                        *)
(***************************************************************************)
WithField(m, k, v) == IF v.t = "nil" THEN m ELSE Put(m, k, v)

WrongTyped == {IntV(7), DictV(EmptyMap), ArrayV(<<>>)}

TrackDict(ar, al, nm) ==
  DictV(WithField(WithField(WithField(EmptyMap, "Artist", ar), "Album", al),
                  "Name", nm))

\* Every way a track dict can hold, lack or mistype its three fields.
AllTrackDicts ==
  {TrackDict(ar, al, nm) :
     ar \in {NilValue, StrV("Darude"), StrV("")} \cup WrongTyped,
     al \in {NilValue, StrV("Storm"), StrV("")} \cup WrongTyped,
     nm \in {NilValue, StrV("Sandstorm"), StrV("")} \cup WrongTyped}

FullCatalog ==
  DictV(Put(Put(Put(EmptyMap,
    "1", TrackDict(StrV("Darude"), StrV("Storm"), StrV("Sandstorm"))),
    "2", TrackDict(NilValue, IntV(7), StrV("Solo"))),
    "03", TrackDict(StrV("OK Go"), StrV("Oh No"), StrV("Here It Goes Again"))))

BlankCatalog == DictV(Put(EmptyMap, "1", TrackDict(StrV(""), StrV(""), StrV(""))))

TracksValues ==
  {FullCatalog, BlankCatalog, DictV(EmptyMap),
   NilValue, ArrayV(<<>>), DictV(Put(EmptyMap, "1", StrV("x")))}

Item(id) == DictV(WithField(EmptyMap, "Track ID", id))

PlaylistDict(name, items) ==
  DictV(WithField(WithField(EmptyMap, "Name", name), "Playlist Items", items))

Mix == PlaylistDict(StrV("Mix"), ArrayV(<<Item(IntV(1)), Item(IntV(2))>>))
Unnamed ==
  PlaylistDict(NilValue, ArrayV(<<Item(IntV(2)), Item(IntV(2)), Item(IntV(1))>>))
Empty == PlaylistDict(StrV("Empty"), ArrayV(<<>>))
NoItemsKey == PlaylistDict(StrV("Bare"), NilValue)
ItemsString == PlaylistDict(IntV(3), StrV("x"))
Lost == PlaylistDict(StrV("Lost"), ArrayV(<<Item(IntV(1)), Item(IntV(9)), Item(IntV(3))>>))
NoTrackID == PlaylistDict(StrV("Broken"), ArrayV(<<Item(IntV(1)), Item(NilValue)>>))
StringTrackID == PlaylistDict(StrV("Typed"), ArrayV(<<Item(StrV("1"))>>))

PlaylistShapes ==
  {Mix, Unnamed, Empty, NoItemsKey, ItemsString, Lost, NoTrackID, StringTrackID}

\* The entries in front: SkipCount of them, or fewer.
RECURSIVE Copies(_, _)
Copies(d, n) == IF n = 0 THEN <<>> ELSE <<d>> \o Copies(d, n - 1)

Fronts ==
  {Copies(d, SkipCount) : d \in {Mix, NoItemsKey, NoTrackID}}
    \cup {<<Mix, Lost, NoTrackID, Unnamed, ItemsString>>}

PlaylistArrays ==
  {f \o t : f \in Fronts,
            t \in UNION {[1..n -> PlaylistShapes] : n \in 0..MaxTail}}
    \cup {SubSeq(f, 1, n) : f \in Fronts, n \in 0..(SkipCount - 1)}

PlaylistsValues ==
  {ArrayV(a) : a \in PlaylistArrays} \cup {NilValue, DictV(EmptyMap)}

Library(tv, pv) ==
  DictV(WithField(WithField(Put(EmptyMap, "Major Version", IntV(1)),
                            "Tracks", tv), "Playlists", pv))

Libraries ==
  {Library(tv, pv) : tv \in TracksValues, pv \in PlaylistsValues}
    \cup {Library(DictV(Put(Put(EmptyMap, "1", td), "2", TrackDict(NilValue, NilValue, NilValue))),
                  ArrayV(Copies(Mix, SkipCount) \o <<PlaylistDict(nm, ArrayV(<<Item(IntV(1))>>))>>)) :
            td \in AllTrackDicts,
            nm \in {NilValue, StrV("Mix"), StrV("")} \cup WrongTyped}

InitExtract ==
  /\ doc = Plist(<<>>)
  /\ input = <<>>
  /\ pos = 1
  /\ stack = <<>>
  /\ iD \in Libraries
  /\ pc = "decoded"
  /\ tracks = EmptyMap
  /\ playlists = <<>>
  /\ Format \in Formats
  /\ fileCreated = FALSE
  /\ written = <<>>

SpecExtract == InitExtract /\ [][Extract]_vars

(***************************************************************************)
(* What the documents say, read off the element tree.                      *)
(***************************************************************************)
KnownNames == {"key", "integer", "string", "dict", "array"}

IsElement(el) == el.e # "#text"
IsText(el) == el.e = "#text"
Elements(body) == SelectSeq(body, IsElement)
OnlyText(body) == \A i \in 1..Len(body) : IsText(body[i])

RECURSIVE TextOf(_)
TextOf(body) == IF body = <<>> THEN "" ELSE Head(body).text \o TextOf(Tail(body))

\* The number of elements open just before each of the tokens 1..p.
DepthBefore(in, p) ==
  [j \in 1..p |->
     Cardinality({i \in 1..(j - 1) : in[i].k = "start"})
       - Cardinality({i \in 1..(j - 1) : in[i].k = "end"})]

\* The start tags of the elements open just before token p: those whose
\* end tag is not among the tokens before p.
OpenAt(in, p) ==
  LET dep == DepthBefore(in, p) IN
    {i \in 1..(p - 1) : in[i].k = "start" /\ \A j \in (i + 1)..p : dep[j] > dep[i]}

\* The names of the elements open just before token p, outermost first.
OpenBefore(in, p) ==
  LET open == OpenAt(in, p) IN
    [n \in 1..Cardinality(open) |->
       in[CHOOSE i \in open : Cardinality({j \in open : j < i}) = n - 1].s]

\* A well-formed dict: keys and values alternate, the keys differ, and each
\* value is a string, an integer that parses, a well-formed dict, an array
\* of well-formed dicts, or an element of another name holding only text.
RECURSIVE WellFormed(_)
WellFormedValue(el) ==
  CASE el.e = "string" -> OnlyText(el.body)
    [] el.e = "integer" -> OnlyText(el.body) /\ ParseInt(TextOf(el.body)).ok
    [] el.e = "dict" -> WellFormed(el)
    [] el.e = "array" ->
         \A i \in 1..Len(Elements(el.body)) :
           Elements(el.body)[i].e = "dict" /\ WellFormed(Elements(el.body)[i])
    [] el.e = "key" -> FALSE
    [] OTHER -> OnlyText(el.body)

WellFormed(d) ==
  LET els == Elements(d.body) IN
    /\ Len(els) % 2 = 0
    /\ \A i \in 1..Len(els) :
         IF i % 2 = 1 THEN els[i].e = "key" /\ OnlyText(els[i].body)
         ELSE WellFormedValue(els[i])
    /\ \A i, j \in 1..Len(els) :
         (i % 2 = 1 /\ j % 2 = 1 /\ i # j)
           => TextOf(els[i].body) # TextOf(els[j].body)

\* The value a well-formed element stands for.
RECURSIVE ValueOf(_)
RECURSIVE PairsOf(_, _)
RECURSIVE DictsOf(_)
ValueOf(el) ==
  CASE el.e = "string" -> StrV(TextOf(el.body))
    [] el.e = "integer" -> IntV(ParseInt(TextOf(el.body)).n)
    [] el.e = "dict" -> DictV(PairsOf(Elements(el.body), EmptyMap))
    [] el.e = "array" -> ArrayV(DictsOf(Elements(el.body)))

PairsOf(els, m) ==
  IF Len(els) < 2 THEN m
  ELSE PairsOf(Tail(Tail(els)),
               IF els[2].e \in KnownNames
               THEN Put(m, TextOf(els[1].body), ValueOf(els[2])) ELSE m)

DictsOf(els) ==
  IF els = <<>> THEN <<>> ELSE <<ValueOf(Head(els))>> \o DictsOf(Tail(els))

(***************************************************************************)
(* The claims about the decoder, checked under Spec.                       *)
(***************************************************************************)
\* A value has reached the dict call f, which is g afterwards: it is stored
\* under the pending key, which is then cleared, or it is dropped when no
\* key is pending.
PairedOrDiscarded(f, g) ==
  IF f.key # ""
  THEN /\ DOMAIN g.kvs = (DOMAIN f.kvs) \cup {f.key}
       /\ \A k \in (DOMAIN f.kvs) \ {f.key} : g.kvs[k] = f.kvs[k]
       /\ g.key = ""
  ELSE g.kvs = f.kvs /\ g.key = ""

\* A string or integer element is read by the dict call on top.
ScalarValueRead ==
  /\ Decoding("dict")
  /\ Tok.k = "start"
  /\ Tok.s \in {"string", "integer"}
  /\ pc' = "decode"

\* A nested dict or an array is handed back to the dict call that read it.
NestedValueReturned ==
  /\ pc = "decode"
  /\ pc' = "decode"
  /\ Len(stack') = Len(stack) - 1
  /\ stack'[Len(stack')].kind = "dict"

\* C1: in a dict, a value element (string, integer, dict or array) is
\* stored only when a pending key is set, under that key, and storing it
\* clears the pending key; a value read while no key is pending is dropped
\* and neither adds nor overwrites an entry.
C1_ValueNeedsPendingKey ==
  [][/\ ScalarValueRead => PairedOrDiscarded(Top, stack'[Len(stack)])
     /\ NestedValueReturned =>
          PairedOrDiscarded(stack[Len(stack) - 1], stack'[Len(stack) - 1])]_vars

\* Token p lies inside an element of another name that the dict call f has
\* met among its own children.
InsideOther(f, p) ==
  LET depth == Len(OpenBefore(input, f.at)) + 1
      open == OpenBefore(input, p)
  IN Len(open) > depth /\ open[depth + 1] \notin KnownNames

\* C2: an element of a name other than key, string, integer, dict, array is
\* consumed and discarded with everything inside it: while the stream is
\* inside such an element, the enclosing dict's mapping and pending key do
\* not change, so after its end tag they are what they were before it.
C2_OtherElementSkipped ==
  [][\A L \in 1..Len(stack) :
       (/\ pc = "decode"
        /\ pc' = "decode"
        /\ stack[L].kind = "dict"
        /\ L <= Len(stack')
        /\ InsideOther(stack[L], pos))
         => /\ stack'[L].kvs = stack[L].kvs
            /\ stack'[L].key = stack[L].key]_vars

\* The plist's only child element, when that is a dict.
RootDict == Elements(doc.body)[1]
HasOneRootDict ==
  /\ doc.e = "plist"
  /\ Len(Elements(doc.body)) = 1
  /\ RootDict.e = "dict"

\* The plist, dict and array elements open just before token p, counted:
\* the stream is well nested, so these are the start tags of the three
\* names less their end tags.
Decoded == {"plist", "dict", "array"}
OpenDecoded(in, p) ==
  Cardinality({i \in 1..(p - 1) : in[i].k = "start" /\ in[i].s \in Decoded})
    - Cardinality({i \in 1..(p - 1) : in[i].k = "end" /\ in[i].s \in Decoded})

\* The calls in progress are exactly the plist, dict and array elements
\* open at the next token, each with its end tag still ahead.
CallsMatchOpenElements ==
  LET dep == DepthBefore(input, pos) IN
    /\ Len(stack) = OpenDecoded(input, pos)
    /\ \A L \in 1..Len(stack) :
         LET at == stack[L].at IN
           /\ input[at] = StartTok(stack[L].start)
           /\ stack[L].start \in Decoded
           /\ \A j \in (at + 1)..pos : dep[j] > dep[at]
           /\ \A M \in 1..(L - 1) : stack[M].at < at

\* C3: a dict decode returns exactly at the end tag matching its own start
\* tag, never at the end tag of a nested dict or array; so a well-formed
\* dict decodes to exactly its pairs: those inside a nested dict only in
\* the nested Dict, those after a nested dict or array in the outer
\* mapping, a string, an integer, a nested dict and an array of dicts each
\* with its variant and value.
C3_DictDecodesToItsPairs ==
  /\ pc = "decode" => CallsMatchOpenElements
  /\ (pc = "decoded" /\ HasOneRootDict /\ WellFormed(RootDict))
       => iD = ValueOf(RootDict)

C3_Witness ==
  /\ pc = "decoded"
  /\ doc = RoundTripDoc
  /\ iD = DictV([s |-> StrV("text"), i |-> IntV(12),
                 d |-> DictV([in |-> StrV("ner")]),
                 arr |-> ArrayV(<<DictV([n |-> IntV(1)]), DictV(EmptyMap)>>)])

\* The decode has failed: an error is on its way up, or has reached main.
DecodeFailed == pc \in {"unwind", "fatal244"}

NothingExtracted ==
  /\ tracks = EmptyMap
  /\ playlists = <<>>
  /\ ~fileCreated
  /\ written = <<>>

\* An error goes up one call at a time and ends in main's log.Fatalf; a
\* stream that has ended makes the next read fail.
ErrorPropagates ==
  /\ (pc = "decode" /\ pos > Len(input)) => pc' = "unwind"
  /\ pc = "unwind" =>
       /\ stack' = Pop(stack)
       /\ pc' = IF stack' = <<>> THEN "fatal244" ELSE "unwind"
       /\ iD' = iD
  /\ pc = "fatal244" => pc' = "fatal244"

\* C4 as stated: when the stream ends, or a read or a nested decode fails,
\* before a dict's end tag, the error goes up through every enclosing decode
\* to main, no Dict on the failing path has its KVs assigned, and the run
\* aborts without extracting.
C4_NoDictAssignedOnFailure ==
  /\ [][ErrorPropagates]_vars
  /\ [](DecodeFailed => NothingExtracted)
  /\ [](pc = "unwind" =>
          \A L \in 1..Len(stack) : stack[L].kind = "dict" => stack[L].di.nil)

\* C4 as amended: no decode on the failing path assigns KVs.  The Dict of a
\* nested dict or of an array element is still nil; i.D, which every dict
\* child of the plist decodes into, is what the last complete one left.
C4_FailedDecodeAssignsNothing ==
  /\ [][ErrorPropagates]_vars
  /\ [](DecodeFailed => NothingExtracted)
  /\ [](pc = "unwind" =>
          \A L \in 1..Len(stack) :
            stack[L].kind = "dict" =>
              IF stack[L - 1].kind = "plist" THEN stack[L].di = iD
              ELSE stack[L].di.nil)

\* An error three calls below the plist, with pairs already read above it.
C4_Witness ==
  /\ pc = "unwind"
  /\ Len(stack) >= 4
  /\ Top.kind = "dict"
  /\ \E L \in 1..Len(stack) : stack[L].kind = "dict" /\ stack[L].kvs # EmptyMap

(***************************************************************************)
(* The claims about the extraction, checked under SpecExtract.             *)
(***************************************************************************)
RawTracks == Lookup(iD, "Tracks")
RawPlaylists == Lookup(iD, "Playlists")

PlaylistsDone == pc \in {"extracted", "done", "fatal290", "fatal294"}
AfterPlaylists == PlaylistsDone \/ pc \in {"panic260", "panic267", "panic276"}
AfterTracks == AfterPlaylists \/ pc = "tracks"

HasItems(d) == Lookup(d, "Playlist Items").t = "array"
ItemsOf(d) == Lookup(d, "Playlist Items").Dicts
TrackIDs(d) == [j \in 1..Len(ItemsOf(d)) |-> Lookup(ItemsOf(d)[j], "Track ID")]
WellFormedItems(d) ==
  HasItems(d) /\ \A j \in 1..Len(ItemsOf(d)) : TrackIDs(d)[j].t = "int"

\* The playlist dicts after the first five.
AfterFive == SubSeq(RawPlaylists.Dicts, 6, Len(RawPlaylists.Dicts))
LongEnough == RawPlaylists.t = "array" /\ Len(RawPlaylists.Dicts) >= 5

\* The text a field stands for: its string, or the placeholder.
FieldText(v, placeholder) ==
  CASE v.t = "str" -> v.s
    [] v.t \in {"nil", "int", "dict", "array"} -> placeholder

\* The Track of the catalog entry under key id.
CatalogTrack(id) ==
  LET td == RawTracks.KVs[id] IN
    [Artist |-> FieldText(Lookup(td, "Artist"), "Unknown Artist"),
     Album |-> FieldText(Lookup(td, "Album"), "Unknown Album"),
     Name |-> FieldText(Lookup(td, "Name"), "Unknown Name")]

\* Playlist p is built from playlist dict d: its name, and one Track per
\* item, in the items' order.
BuiltFrom(p, d) ==
  /\ p.Name = FieldText(Lookup(d, "Name"), "Unknown Playlist")
  /\ Len(p.Tracks) = Len(ItemsOf(d))
  /\ \A j \in 1..Len(ItemsOf(d)) :
       LET key == Itoa(TrackIDs(d)[j].i) IN
         p.Tracks[j] = IF key \in DOMAIN tracks THEN tracks[key] ELSE ZeroTrack

\* C5: of n >= 5 playlist dicts, those after the first five holding
\* well-formed Playlist Items, exactly n-5 playlists are extracted, the i-th
\* built from the entry at index 5+i; none of the first five is extracted,
\* whatever it holds.
C5_SkipFirstFive ==
  (/\ AfterPlaylists
   /\ LongEnough
   /\ \A i \in 1..Len(AfterFive) : WellFormedItems(AfterFive[i]))
    => /\ PlaylistsDone
       /\ Len(playlists) = Len(RawPlaylists.Dicts) - 5
       /\ \A i \in 1..Len(playlists) :
            BuiltFrom(playlists[i], RawPlaylists.Dicts[5 + i])

\* Seven playlist dicts give the last two, in order.
C5_Witness ==
  /\ pc = "extracted"
  /\ RawPlaylists.t = "array"
  /\ Len(RawPlaylists.Dicts) = 7
  /\ RawPlaylists.Dicts[6] = Unnamed
  /\ RawPlaylists.Dicts[7] = Lost
  /\ Len(playlists) = 2
  /\ playlists[1].Name = "Unknown Playlist"
  /\ playlists[2].Name = "Lost"

Unresolvable(d) ==
  \E j \in 1..Len(ItemsOf(d)) : Itoa(TrackIDs(d)[j].i) \notin DOMAIN RawTracks.KVs

\* C6: when an item's integer Track ID is no key of Tracks, the run does not
\* abort and the playlist holds no Track with Artist, Album and Name all
\* empty.  (Stated for libraries none of whose catalog tracks is itself all
\* empty, and whose other items are well formed.)
C6_NoBlankTrack ==
  (/\ AfterPlaylists
   /\ LongEnough
   /\ \A i \in 1..Len(AfterFive) : WellFormedItems(AfterFive[i])
   /\ \E i \in 1..Len(AfterFive) : Unresolvable(AfterFive[i])
   /\ \A id \in DOMAIN tracks : tracks[id] # ZeroTrack)
    => /\ PlaylistsDone
       /\ \A i \in 1..Len(playlists) :
            \A j \in 1..Len(playlists[i].Tracks) :
              playlists[i].Tracks[j] # ZeroTrack

\* The playlist dicts after the first five that have a Playlist Items array.
Kept == SelectSeq(AfterFive, HasItems)

\* C7: a playlist dict after the first five whose Playlist Items is absent
\* or no Array is passed over without aborting: the extracted playlists are
\* those of the other dicts, in their order.
C7_PlaylistWithoutItemsSkipped ==
  (/\ AfterPlaylists
   /\ LongEnough
   /\ \A i \in 1..Len(AfterFive) :
        HasItems(AfterFive[i]) => WellFormedItems(AfterFive[i]))
    => /\ PlaylistsDone
       /\ Len(playlists) = Len(Kept)
       /\ \A i \in 1..Len(Kept) : BuiltFrom(playlists[i], Kept[i])

\* A playlist without items, then one with items, which is extracted.
C7_Witness ==
  /\ pc = "extracted"
  /\ LongEnough
  /\ Len(AfterFive) = 2
  /\ Lookup(AfterFive[1], "Playlist Items").t \in {"nil", "str"}
  /\ AfterFive[2] = Mix
  /\ Len(playlists) = 1
  /\ playlists[1].Name = "Mix"

\* C8: a Track's Artist, Album and Name are the track dict's string values,
\* the empty string included, and "Unknown Artist", "Unknown Album",
\* "Unknown Name" where the key is absent or holds an integer, a dict or an
\* array; likewise a Playlist's Name and "Unknown Playlist".
C8_DefaultSubstitution ==
  /\ AfterTracks =>
       /\ DOMAIN tracks = DOMAIN RawTracks.KVs
       /\ \A id \in DOMAIN tracks : tracks[id] = CatalogTrack(id)
  /\ (PlaylistsDone /\ Len(playlists) = Len(Kept)) =>
       \A i \in 1..Len(Kept) :
         playlists[i].Name = FieldText(Lookup(Kept[i], "Name"), "Unknown Playlist")

\* A track with an integer Artist, no Album and an empty Name, in a
\* playlist without a name.
C8_Witness ==
  /\ pc = "extracted"
  /\ "1" \in DOMAIN tracks
  /\ Lookup(RawTracks.KVs["1"], "Artist").t = "int"
  /\ Lookup(RawTracks.KVs["1"], "Album").t = "nil"
  /\ Lookup(RawTracks.KVs["1"], "Name") = StrV("")
  /\ tracks["1"] = [Artist |-> "Unknown Artist", Album |-> "Unknown Album", Name |-> ""]
  /\ Len(playlists) = 1
  /\ Lookup(Kept[1], "Name").t = "nil"
  /\ playlists[1].Name = "Unknown Playlist"

Resolvable(d) ==
  \A j \in 1..Len(ItemsOf(d)) : Itoa(TrackIDs(d)[j].i) \in DOMAIN RawTracks.KVs

\* C9: an extracted playlist whose items all carry an integer Track ID of
\* the catalog has one Track per item, the j-th the Track of the catalog
\* entry under the decimal text of the j-th Track ID; a track referenced
\* twice appears twice, and resolving leaves the catalog as it was.
C9_TracksResolvedInOrder ==
  /\ AfterPlaylists =>
       tracks = [id \in DOMAIN RawTracks.KVs |-> CatalogTrack(id)]
  /\ PlaylistsDone =>
       /\ Len(playlists) = Len(Kept)
       /\ \A i \in 1..Len(Kept) :
            Resolvable(Kept[i]) =>
              /\ Len(playlists[i].Tracks) = Len(ItemsOf(Kept[i]))
              /\ \A j \in 1..Len(ItemsOf(Kept[i])) :
                   playlists[i].Tracks[j] =
                     CatalogTrack(Itoa(TrackIDs(Kept[i])[j].i))

\* Items 2, 2, 1 of the full catalog give its tracks 2, 2, 1.
C9_Witness ==
  /\ pc = "extracted"
  /\ RawTracks = FullCatalog
  /\ Len(Kept) >= 1
  /\ Kept[1] = Unnamed
  /\ playlists[1].Tracks =
       <<[Artist |-> "Unknown Artist", Album |-> "Unknown Album", Name |-> "Solo"],
         [Artist |-> "Unknown Artist", Album |-> "Unknown Album", Name |-> "Solo"],
         [Artist |-> "Darude", Album |-> "Storm", Name |-> "Sandstorm"]>>

\* C10: with fewer than 5 playlist dicts the run aborts at the slice of line
\* 267, before the output file is created or anything is written; with
\* exactly 5 it goes on with no playlists.
C10_FewerThanFiveAborts ==
  (AfterPlaylists /\ RawPlaylists.t = "array") =>
    /\ Len(RawPlaylists.Dicts) < 5 =>
         /\ pc = "panic267"
         /\ playlists = <<>>
         /\ ~fileCreated
         /\ written = <<>>
    /\ Len(RawPlaylists.Dicts) = 5 => (PlaylistsDone /\ playlists = <<>>)

\* A library whose Playlists array is empty.
C10_Witness ==
  /\ pc = "panic267"
  /\ RawTracks = FullCatalog
  /\ RawPlaylists = ArrayV(<<>>)
  /\ ~fileCreated

====
